---- MODULE Spec2Model ----
(***************************************************************************)
(* A model of the engineering-paper-summarizer pipeline                    *)
(* (src/src/engpapersumm): section detection, chunking, topic filtering,   *)
(* coherence check, title validation, the hierarchical summarization       *)
(* pipeline and the directory batch.                                       *)
(*                                                                         *)
(* A text is a sequence of blocks joined by the blank-line separator       *)
(* "\n\n".  A block is a header line (one of the section words, possibly   *)
(* preceded by an ordinal such as "2. ") or a body paragraph of a given    *)
(* number of characters that holds no line break and no section word.      *)
(* All positions are character offsets into the joined text, so slicing,   *)
(* regex match positions and lengths are computed exactly.                 *)
(***************************************************************************)
EXTENDS Integers, Sequences, FiniteSets, TLC

VARIABLES
    \* detect_sections (extractors/section.py)
    text, section_patterns, max_chars,
    filtered_matches, sections, processed_sections, pc_detect,
    \* filter_irrelevant_sections (processors/topic.py)
    f_sections, similarity_of, similarity_threshold,
    relevant_sections, refiltered_sections, pc_filter,
    \* ensure_content_coherence (processors/coherence.py)
    c_sections, cosine_of, vectorizer_ok, coherent_sections, vectorized, pc_coherence,
    \* validate_content_against_title (processors/validation.py)
    v_sections, relevance_calls, validated_sections, pc_validate,
    \* PaperSummarizer.summarize_file and _hierarchical_summarize (summarizer.py)
    s_pc, s_topic_dict, s_sections, s_topics, s_index, s_section_summaries,
    s_summary, s_key_takeaways, s_engineers_corner, s_error,
    s_detected, s_calls,
    \* PaperSummarizer.summarize_directory (summarizer.py)
    b_pdf_files, b_index, b_output_files, b_pc, b_calls,
    \* the output path of summarize_file (summarizer.py, utils/text.py)
    paper_title, safe_title, out_file, pc_out_file,
    \* PaperSummarizer.__init__ (summarizer.py): the dict objects of the
    \* process and the summarizers constructed so far
    heap, summarizers,
    \* compute_topic_similarity (processors/topic.py): the topic document
    topic_dict, section_text, topic_text, topic_similarity, pc_topic_doc,
    \* extract_text_and_title (extractors/pdf.py) and the detect_sections call
    \* of _hierarchical_summarize on its text (summarizer.py)
    e_pages, e_meta, e_stem, e_max_chars, e_text, e_title, e_sections, e_pc

detect_vars == <<text, section_patterns, max_chars,
                 filtered_matches, sections, processed_sections, pc_detect>>

filter_vars == <<f_sections, similarity_of, similarity_threshold,
                 relevant_sections, refiltered_sections, pc_filter>>

coherence_vars == <<c_sections, cosine_of, vectorizer_ok, coherent_sections,
                    vectorized, pc_coherence>>

validate_vars == <<v_sections, relevance_calls, validated_sections, pc_validate>>

file_vars == <<s_pc, s_topic_dict, s_sections, s_topics, s_index,
               s_section_summaries, s_summary, s_key_takeaways,
               s_engineers_corner, s_error, s_detected, s_calls>>

batch_vars == <<b_pdf_files, b_index, b_output_files, b_pc, b_calls>>

out_file_vars == <<paper_title, safe_title, out_file, pc_out_file>>

config_vars == <<heap, summarizers>>

topic_doc_vars == <<topic_dict, section_text, topic_text, topic_similarity,
                    pc_topic_doc>>

extract_vars == <<e_pages, e_meta, e_stem, e_max_chars, e_text, e_title,
                  e_sections, e_pc>>

vars == <<detect_vars, filter_vars, coherence_vars, validate_vars, file_vars,
          batch_vars, out_file_vars, config_vars, topic_doc_vars, extract_vars>>

\* what each operation leaves alone
not_detect_vars == <<filter_vars, coherence_vars, validate_vars, file_vars, batch_vars,
                     out_file_vars, config_vars,
                     topic_doc_vars, extract_vars>>
not_filter_vars == <<detect_vars, coherence_vars, validate_vars, file_vars, batch_vars,
                     out_file_vars, config_vars,
                     topic_doc_vars, extract_vars>>
not_coherence_vars == <<detect_vars, filter_vars, validate_vars, file_vars, batch_vars,
                        out_file_vars, config_vars,
                     topic_doc_vars, extract_vars>>
not_validate_vars == <<detect_vars, filter_vars, coherence_vars, file_vars, batch_vars,
                       out_file_vars, config_vars,
                     topic_doc_vars, extract_vars>>
not_file_vars == <<detect_vars, filter_vars, coherence_vars, validate_vars, batch_vars,
                   out_file_vars, config_vars,
                     topic_doc_vars, extract_vars>>
not_batch_vars == <<detect_vars, filter_vars, coherence_vars, validate_vars, file_vars,
                    out_file_vars, config_vars,
                     topic_doc_vars, extract_vars>>
not_out_file_vars == <<detect_vars, filter_vars, coherence_vars, validate_vars,
                       file_vars, batch_vars, config_vars,
                     topic_doc_vars, extract_vars>>
not_config_vars == <<detect_vars, filter_vars, coherence_vars, validate_vars,
                     file_vars, batch_vars, out_file_vars,
                     topic_doc_vars, extract_vars>>
not_topic_doc_vars == <<detect_vars, filter_vars, coherence_vars, validate_vars,
                        file_vars, batch_vars, out_file_vars, config_vars,
                        extract_vars>>
not_extract_vars == <<detect_vars, filter_vars, coherence_vars, validate_vars,
                      file_vars, batch_vars, out_file_vars, config_vars,
                      topic_doc_vars>>

----------------------------------------------------------------------------
(* Each specification below runs one operation of the program; the state   *)
(* of the operations it does not run stays idle                            *)

DetectIdle ==
    /\ text = <<>> /\ section_patterns = {} /\ max_chars = 0
    /\ filtered_matches = <<>> /\ sections = <<>> /\ processed_sections = <<>>
    /\ pc_detect = "idle"

FilterIdle ==
    /\ f_sections = <<>> /\ similarity_of = <<>> /\ similarity_threshold = 0
    /\ relevant_sections = <<>> /\ refiltered_sections = <<>>
    /\ pc_filter = "idle"

CoherenceIdle ==
    /\ c_sections = <<>> /\ cosine_of = <<>> /\ vectorizer_ok = TRUE
    /\ coherent_sections = <<>> /\ vectorized = FALSE
    /\ pc_coherence = "idle"

ValidateIdle ==
    /\ v_sections = <<>> /\ relevance_calls = <<>> /\ validated_sections = <<>>
    /\ pc_validate = "idle"

FileIdle ==
    /\ s_pc = "idle" /\ s_topic_dict = "none" /\ s_sections = <<>>
    /\ s_topics = "none" /\ s_index = 0 /\ s_section_summaries = <<>>
    /\ s_summary = "none" /\ s_key_takeaways = "none"
    /\ s_engineers_corner = "none" /\ s_error = "none"
    /\ s_detected = 0 /\ s_calls = <<>>

BatchIdle ==
    /\ b_pdf_files = <<>> /\ b_index = 0 /\ b_output_files = <<>>
    /\ b_pc = "idle" /\ b_calls = <<>>

OutFileIdle ==
    /\ paper_title = <<>> /\ safe_title = <<>> /\ out_file = <<>>
    /\ pc_out_file = "idle"

ConfigIdle ==
    /\ heap = <<>> /\ summarizers = <<>>

TopicDocIdle ==
    /\ topic_dict = <<>> /\ section_text = "" /\ topic_text = <<>>
    /\ topic_similarity = 0 /\ pc_topic_doc = "idle"

ExtractIdle ==
    /\ e_pages = <<>> /\ e_meta = "None" /\ e_stem = "" /\ e_max_chars = 0
    /\ e_text = <<>> /\ e_title = "" /\ e_sections = <<>>
    /\ e_pc = "idle"

----------------------------------------------------------------------------
(* Bounds of the model *)

MaxBlocks == 4

\* longest section list handed to a filter stage
MaxSections == 4

\* most sections detect_sections hands to the pipeline of one document
MaxDetected == 3

\* most PDF files in a directory
MaxFiles == 3

\* distinct document titles
MaxTitles == 2

\* longest title, in characters
MaxTitleLen == 3

\* most PaperSummarizer constructions in one process
MaxSummarizers == 2

\* section contents told apart by the similarity computation (0 is the empty text)
Contents == {0, 1, 2}

\* similarity levels (cosine similarities, coarsened to a few ordered levels)
MaxSim == 2

\* pairwise cosine similarities of section contents, in tenths
CosVals == {0, 3, 10}

\* body paragraph lengths: below the 200-character floor, exactly at and
\* just above the 1000-character header distance
BodyLens == {150, 1000, 1001}

\* chunk sizes tried (15000 is DEFAULT_CONFIG["CHUNK_SIZE"])
MaxCharsSet == {151, 500, 15000}

----------------------------------------------------------------------------
(* Program constants *)

min_section_size == 1000
min_content_len == 200
SepLen == 2

----------------------------------------------------------------------------
(* Texts *)

HeaderKinds == {"abstract", "introduction", "results"}

HeaderLen(k) ==
    CASE k = "abstract" -> 8
      [] k = "introduction" -> 12
      [] k = "results" -> 7

\* a header line; num = TRUE when it carries the ordinal "2. "
Hdr(k, num) == [kind |-> k, num |-> num,
                len |-> HeaderLen(k) + (IF num THEN 3 ELSE 0)]

Body(n) == [kind |-> "body", num |-> FALSE, len |-> n]

Blocks == {Hdr(k, FALSE) : k \in HeaderKinds}
            \cup {Hdr("results", TRUE)}
            \cup {Body(n) : n \in BodyLens}

Texts == UNION {[1..n -> Blocks] : n \in 1..MaxBlocks}

\* the configured pattern lists tried: all section words, or a list
\* without "introduction" and "abstract"
PatternLists == {HeaderKinds, {"results"}}

RECURSIVE SumLen(_, _)
SumLen(t, i) == IF i = 0 THEN 0 ELSE SumLen(t, i - 1) + t[i].len

BlockStart(t, i) == SumLen(t, i - 1) + SepLen * (i - 1)
BlockEnd(t, i) == BlockStart(t, i) + t[i].len
TextLen(t) == IF Len(t) = 0 THEN 0 ELSE BlockEnd(t, Len(t))

\* the character at offset p is a line break
IsNewline(t, p) ==
    \E i \in 1..(Len(t) - 1) : BlockEnd(t, i) <= p /\ p < BlockEnd(t, i) + SepLen

----------------------------------------------------------------------------
(* Strings cut out of the text: the region [lo, hi) and the lengths of the *)
(* pieces str.split("\n\n") yields for it                                  *)

RECURSIVE SliceParas(_, _, _, _, _)
SliceParas(t, b, i, from, acc) ==
    IF i >= Len(t) THEN Append(acc, b - from)
    ELSE LET s == BlockEnd(t, i) IN
         IF from <= s /\ s + SepLen <= b
         THEN SliceParas(t, b, i + 1, s + SepLen, Append(acc, s - from))
         ELSE SliceParas(t, b, i + 1, from, acc)

\* text[a:b]
Slice(t, a, b) ==
    IF a >= b THEN [lo |-> a, hi |-> a, paras |-> <<0>>]
    ELSE [lo |-> a, hi |-> b, paras |-> SliceParas(t, b, 1, a, <<>>)]

RECURSIVE StripLo(_, _, _)
StripLo(t, a, b) ==
    IF a < b /\ IsNewline(t, a) THEN StripLo(t, a + 1, b) ELSE a

RECURSIVE StripHi(_, _, _)
StripHi(t, a, b) ==
    IF a < b /\ IsNewline(t, b - 1) THEN StripHi(t, a, b - 1) ELSE b

\* text[a:b].strip()
Strip(t, a, b) ==
    LET lo == StripLo(t, a, b) IN Slice(t, lo, StripHi(t, lo, b))

RECURSIVE SumSeq(_)
SumSeq(s) == IF s = <<>> THEN 0 ELSE Head(s) + SumSeq(Tail(s))

\* len(content)
ContentLen(c) == SumSeq(c.paras) + SepLen * (Len(c.paras) - 1)

----------------------------------------------------------------------------
(* utils/text.py: chunk_text *)

\* a chunk is the paragraphs it holds, each followed by "\n\n": splitting it
\* again yields those paragraphs and a final empty piece
ChunkOf(cur, lo, hi) == [lo |-> lo, hi |-> hi, paras |-> Append(cur, 0)]

\* len(current): every paragraph carries its appended separator
CurrentLen(cur) == SumSeq(cur) + SepLen * Len(cur)

\* mutant: the paragraph that overflows the chunk is not carried over
RECURSIVE ChunkLoopDropping(_, _, _, _, _, _)
ChunkLoopDropping(paras, m, i, chunks, cur, pos) ==
    IF i > Len(paras)
    THEN IF cur # <<>>
         THEN Append(chunks, ChunkOf(cur, pos - CurrentLen(cur), pos - SepLen))
         ELSE chunks
    ELSE LET p == paras[i] IN
         IF CurrentLen(cur) + p > m
         THEN ChunkLoopDropping(paras, m, i + 1,
                        Append(chunks,
                               IF cur = <<>> THEN ChunkOf(<<>>, pos, pos)
                               ELSE ChunkOf(cur, pos - CurrentLen(cur), pos - SepLen)),
                        <<>>, pos + p + SepLen)
         ELSE ChunkLoopDropping(paras, m, i + 1, chunks, Append(cur, p),
                                pos + p + SepLen)

RECURSIVE ChunkLoop(_, _, _, _, _, _)
ChunkLoop(paras, m, i, chunks, cur, pos) ==
    \* pos: offset in the source text where paragraph i begins;
    \* the chunk being built began at pos - CurrentLen(cur)
    IF i > Len(paras)
    THEN IF cur # <<>>
         THEN Append(chunks, ChunkOf(cur, pos - CurrentLen(cur), pos - SepLen))
         ELSE chunks
    ELSE LET p == paras[i] IN
         IF CurrentLen(cur) + p > m
         THEN ChunkLoop(paras, m, i + 1,
                        Append(chunks,
                               IF cur = <<>> THEN ChunkOf(<<>>, pos, pos)
                               ELSE ChunkOf(cur, pos - CurrentLen(cur), pos - SepLen)),
                        <<p>>, pos + p + SepLen)
         ELSE ChunkLoop(paras, m, i + 1, chunks, Append(cur, p), pos + p + SepLen)

chunk_text(content, m) == ChunkLoop(content.paras, m, 1, <<>>, <<>>, content.lo)

----------------------------------------------------------------------------
(* extractors/section.py: detect_sections *)

\* block i is a header line the combined pattern can match: one of the
\* configured words, alone in its block, followed by a line break
IsHeader(t, i, pats) == t[i].kind \in pats /\ i < Len(t)

\* re.finditer: a match consumes the blank line after the header, so a header
\* directly after a matched header has no blank line left before it
RECURSIVE Matched(_, _, _)
Matched(t, i, pats) ==
    IsHeader(t, i, pats) /\ (i = 1 \/ ~Matched(t, i - 1, pats))

MatchOf(t, i) ==
    [blk |-> i,
     start |-> IF i = 1 THEN 0 ELSE BlockStart(t, i) - SepLen,
     end |-> BlockStart(t, i + 1)]

RECURSIVE MatchesFrom(_, _, _)
MatchesFrom(t, i, pats) ==
    IF i > Len(t) THEN <<>>
    ELSE IF Matched(t, i, pats)
         THEN <<MatchOf(t, i)>> \o MatchesFrom(t, i + 1, pats)
         ELSE MatchesFrom(t, i + 1, pats)

section_matches(t, pats) == MatchesFrom(t, 1, pats)

RECURSIVE FilterMatches(_, _, _, _)
FilterMatches(ms, k, acc, last_end) ==
    IF k > Len(ms) THEN acc
    ELSE IF ms[k].start - last_end > min_section_size \/ last_end = 0
         THEN FilterMatches(ms, k + 1, Append(acc, ms[k]), ms[k].end)
         ELSE FilterMatches(ms, k + 1, acc, last_end)

FilteredMatches(t, pats) == FilterMatches(section_matches(t, pats), 1, <<>>, 0)

\* the header with its ordinal removed, stripped and capitalized
SectionTitle(blk) ==
    CASE blk.kind = "abstract" -> "Abstract"
      [] blk.kind = "introduction" -> "Introduction"
      [] blk.kind = "results" -> "Results"

Section(title, content) == [title |-> title, part |-> 0, content |-> content]

\* mutant: every section runs to the end of the text
RECURSIVE PrimarySectionsToEnd(_, _, _)
PrimarySectionsToEnd(t, fm, i) ==
    IF i > Len(fm) THEN <<>>
    ELSE LET content == Strip(t, fm[i].end, TextLen(t))
         IN (IF ContentLen(content) > min_content_len
             THEN <<Section(SectionTitle(t[fm[i].blk]), content)>>
             ELSE <<>>) \o PrimarySectionsToEnd(t, fm, i + 1)

RECURSIVE PrimarySections(_, _, _)
PrimarySections(t, fm, i) ==
    IF i > Len(fm) THEN <<>>
    ELSE LET end_pos == IF i < Len(fm) THEN fm[i + 1].start ELSE TextLen(t)
             content == Strip(t, fm[i].end, end_pos)
         IN (IF ContentLen(content) > min_content_len
             THEN <<Section(SectionTitle(t[fm[i].blk]), content)>>
             ELSE <<>>) \o PrimarySections(t, fm, i + 1)

\* re.search of the Abstract pattern: the first "abstract" word followed by
\* a line break.  Its group is the next block when a blank line follows that
\* block; otherwise the pattern backtracks to an empty group.
AbstractBlocks(t) == {i \in 1..(Len(t) - 1) : t[i].kind = "abstract"}

abstract_match(t) ==
    IF AbstractBlocks(t) = {} THEN [found |-> FALSE, lo |-> 0, hi |-> 0]
    ELSE LET i == CHOOSE j \in AbstractBlocks(t) :
                      \A k \in AbstractBlocks(t) : j <= k
         IN IF i + 1 < Len(t)
            THEN [found |-> TRUE, lo |-> BlockStart(t, i + 1), hi |-> BlockEnd(t, i + 1)]
            ELSE [found |-> TRUE, lo |-> BlockEnd(t, i) + 1, hi |-> BlockEnd(t, i) + 1]

\* re.search of the Introduction pattern: the first "introduction" header;
\* its group runs to the blank line before the first later block that
\* begins with a digit, or to the end of the text; the match ends after
\* that digit
IntroBlocks(t) == {i \in 1..(Len(t) - 1) : t[i].kind = "introduction"}

DigitBlocksAfter(t, i) == {k \in (i + 2)..Len(t) : t[k].num}

intro_match(t) ==
    IF IntroBlocks(t) = {} THEN [found |-> FALSE, lo |-> 0, hi |-> 0, end |-> 0]
    ELSE LET i == CHOOSE j \in IntroBlocks(t) : \A k \in IntroBlocks(t) : j <= k
             D == DigitBlocksAfter(t, i)
         IN IF D = {}
            THEN [found |-> TRUE, lo |-> BlockStart(t, i + 1), hi |-> TextLen(t),
                  end |-> TextLen(t)]
            ELSE LET k == CHOOSE d \in D : \A e \in D : d <= e
                 IN [found |-> TRUE, lo |-> BlockStart(t, i + 1),
                     hi |-> BlockEnd(t, k - 1), end |-> BlockStart(t, k) + 1]

\* int(text_len * f) for f = n/100
ProportionRounded(len, n) == (len * n + 50) \div 100

Proportion(len, n) == (len * n) \div 100

FallbackSections(t) ==
    LET am == abstract_match(t)
        im == intro_match(t)
        text_len == TextLen(t)
    IN IF am.found /\ im.found
       THEN << Section("Abstract", Strip(t, am.lo, am.hi)),
               Section("Introduction", Strip(t, im.lo, im.hi)),
               Section("Main Body", Slice(t, im.end, Proportion(text_len, 80))),
               Section("Conclusion", Slice(t, Proportion(text_len, 80), text_len)) >>
       ELSE IF im.found
       THEN << Section("Introduction", Strip(t, im.lo, im.hi)),
               Section("Main Body", Slice(t, im.end, Proportion(text_len, 80))),
               Section("Conclusion", Slice(t, Proportion(text_len, 80), text_len)) >>
       ELSE << Section("Introduction", Slice(t, 0, Proportion(text_len, 25))),
               Section("Methods and Results",
                       Slice(t, Proportion(text_len, 25), Proportion(text_len, 75))),
               Section("Discussion and Conclusion",
                       Slice(t, Proportion(text_len, 75), text_len)) >>

TierSections(t, pats) ==
    LET fm == FilteredMatches(t, pats)
        prim == IF Len(fm) >= 2 THEN PrimarySections(t, fm, 1) ELSE <<>>
    IN IF Len(prim) < 2 THEN FallbackSections(t) ELSE prim

\* mutant: parts numbered from 0
RECURSIVE PartsFromZero(_, _, _)
PartsFromZero(title, chunks, i) ==
    IF i > Len(chunks) THEN <<>>
    ELSE <<[title |-> title, part |-> i - 1, content |-> chunks[i]]>>
           \o PartsFromZero(title, chunks, i + 1)

RECURSIVE Parts(_, _, _)
Parts(title, chunks, i) ==
    IF i > Len(chunks) THEN <<>>
    ELSE <<[title |-> title, part |-> i, content |-> chunks[i]]>>
           \o Parts(title, chunks, i + 1)

RECURSIVE ProcessSections(_, _, _)
ProcessSections(secs, m, i) ==
    IF i > Len(secs) THEN <<>>
    ELSE (IF ContentLen(secs[i].content) > m
          THEN Parts(secs[i].title, chunk_text(secs[i].content, m), 1)
          ELSE <<secs[i]>>) \o ProcessSections(secs, m, i + 1)

----------------------------------------------------------------------------
(* processors/topic.py: filter_irrelevant_sections *)

\* the section dicts of a list, by identity, and the members of a list
Ids(s) == [i \in 1..Len(s) |-> s[i].id]
Range(s) == {s[i] : i \in 1..Len(s)}

\* an optional field of a section dict: <<>> when absent, <<v>> when set
Absent == <<>>
Get(field, default) == IF field = <<>> THEN default ELSE field[1]

\* compute_topic_similarity: an empty text scores 0.0; otherwise the TF-IDF
\* cosine of the topic document and the text, a function of the content
compute_topic_similarity(sim, content) ==
    IF content = 0 THEN 0 ELSE sim[content]

Annotate(sim, secs) ==
    [i \in 1..Len(secs) |->
        [secs[i] EXCEPT !.topic_similarity =
                            <<compute_topic_similarity(sim, secs[i].content)>>]]

RECURSIVE KeepAbove(_, _, _)
KeepAbove(secs, thr, i) ==
    IF i > Len(secs) THEN <<>>
    ELSE (IF Get(secs[i].topic_similarity, 0) >= thr THEN <<secs[i]>> ELSE <<>>)
            \o KeepAbove(secs, thr, i + 1)

\* sorted(sections, key=topic_similarity, reverse=True): descending and
\* stable, so equal keys stay in list order
RemoveAt(s, i) == SubSeq(s, 1, i - 1) \o SubSeq(s, i + 1, Len(s))

\* mutant: ascending order
RECURSIVE SortedAscending(_)
SortedAscending(secs) ==
    IF secs = <<>> THEN <<>>
    ELSE LET i == CHOOSE j \in 1..Len(secs) :
                    /\ \A k \in 1..Len(secs) :
                          Get(secs[k].topic_similarity, 0) >= Get(secs[j].topic_similarity, 0)
                    /\ \A k \in 1..(j - 1) :
                          Get(secs[k].topic_similarity, 0) > Get(secs[j].topic_similarity, 0)
         IN <<secs[i]>> \o SortedAscending(RemoveAt(secs, i))

RECURSIVE SortedBySimilarity(_)
SortedBySimilarity(secs) ==
    IF secs = <<>> THEN <<>>
    ELSE LET i == CHOOSE j \in 1..Len(secs) :
                    /\ \A k \in 1..Len(secs) :
                          Get(secs[k].topic_similarity, 0) <= Get(secs[j].topic_similarity, 0)
                    /\ \A k \in 1..(j - 1) :
                          Get(secs[k].topic_similarity, 0) < Get(secs[j].topic_similarity, 0)
         IN <<secs[i]>> \o SortedBySimilarity(RemoveAt(secs, i))

\* mutant: one section too few
FirstNShort(s, n) == SubSeq(s, 1, IF Len(s) < n - 1 THEN Len(s) ELSE n - 1)

FirstN(s, n) == SubSeq(s, 1, IF Len(s) < n THEN Len(s) ELSE n)

\* mutant: the fallback needs more than 3 input sections
TooManyFilteredStrict(kept, secs) == Len(kept) < 3 /\ Len(secs) > 3

TooManyFiltered(kept, secs) == Len(kept) < 3 /\ Len(secs) >= 3

filter_irrelevant_sections(secs, sim, thr) ==
    LET annotated == Annotate(sim, secs)
        kept == KeepAbove(annotated, thr, 1)
    IN IF TooManyFiltered(kept, annotated)
       THEN FirstN(SortedBySimilarity(annotated), 3)
       ELSE kept

----------------------------------------------------------------------------
(* Specification of filter_irrelevant_sections, run once and then once     *)
(* more on its own output                                                  *)

FilterInputs ==
    UNION {[1..n -> Contents] : n \in 0..MaxSections}

InitFilter ==
    /\ \E cs \in FilterInputs :
          f_sections = [i \in 1..Len(cs) |->
                          [id |-> i, content |-> cs[i], topic_similarity |-> Absent]]
    /\ similarity_of \in [Contents \ {0} -> 0..MaxSim]
    /\ similarity_threshold \in 0..(MaxSim + 1)
    /\ relevant_sections = <<>> /\ refiltered_sections = <<>>
    /\ pc_filter = "call"
    /\ DetectIdle /\ CoherenceIdle /\ ValidateIdle /\ FileIdle /\ BatchIdle
    /\ OutFileIdle /\ ConfigIdle
    /\ TopicDocIdle /\ ExtractIdle

\* the call annotates the caller's section dicts in place
FilterIrrelevantSections ==
    /\ pc_filter = "call"
    /\ f_sections' = Annotate(similarity_of, f_sections)
    /\ relevant_sections' =
          filter_irrelevant_sections(f_sections, similarity_of, similarity_threshold)
    /\ pc_filter' = "filtered"
    /\ UNCHANGED <<similarity_of, similarity_threshold, refiltered_sections>>
    /\ UNCHANGED not_filter_vars

\* the same call on the list the first call returned
FilterAgain ==
    /\ pc_filter = "filtered"
    /\ refiltered_sections' =
          filter_irrelevant_sections(relevant_sections, similarity_of,
                                     similarity_threshold)
    /\ pc_filter' = "refiltered"
    /\ UNCHANGED <<f_sections, similarity_of, similarity_threshold, relevant_sections>>
    /\ UNCHANGED not_filter_vars

NextFilter == FilterIrrelevantSections \/ FilterAgain

SpecFilter == InitFilter /\ [][NextFilter]_vars

----------------------------------------------------------------------------
(* processors/coherence.py: ensure_content_coherence *)

Pairs(n) == {p \in (1..n) \X (1..n) : p[1] < p[2]}

\* cosine_similarity of the TF-IDF rows of sections i and j
Cosine(cos, i, j) == IF i < j THEN cos[<<i, j>>] ELSE cos[<<j, i>>]

RECURSIVE SumOthers(_, _, _, _)
SumOthers(cos, n, i, j) ==
    IF j > n THEN 0
    ELSE (IF j = i THEN 0 ELSE Cosine(cos, i, j)) + SumOthers(cos, n, i, j + 1)

\* the mean similarity of section i to the others, as the fraction
\* [num / den]; 0 when there are no others
MeanSimilarity(cos, n, i) ==
    IF n - 1 > 0 THEN [num |-> SumOthers(cos, n, i, 1), den |-> n - 1]
    ELSE [num |-> 0, den |-> 1]

\* x < y for fractions with positive denominators
FracLess(x, y) == x.num * y.den < y.num * x.den

section_scores(cos, n) ==
    [i \in 1..n |-> [index |-> i, mean |-> MeanSimilarity(cos, n, i)]]

\* sorted(section_scores, key=mean): ascending and stable
RECURSIVE SortedScores(_)
SortedScores(scores) ==
    IF scores = <<>> THEN <<>>
    ELSE LET i == CHOOSE j \in 1..Len(scores) :
                    /\ \A k \in 1..Len(scores) : ~FracLess(scores[k].mean, scores[j].mean)
                    /\ \A k \in 1..(j - 1) : FracLess(scores[j].mean, scores[k].mean)
         IN <<scores[i]>> \o SortedScores(RemoveAt(scores, i))

\* mutant: lowest < 0.3, whatever the second-lowest score
IsOutlierAbsolute(lowest, second) ==
    FracLess(lowest, [num |-> 3, den |-> 10])

\* mutant: lowest <= 0.3 * second_lowest
IsOutlierOrEqual(lowest, second) ==
    ~FracLess([num |-> 3 * second.num, den |-> 10 * second.den], lowest)

\* lowest_score < 0.3 * second_lowest
IsOutlier(lowest, second) ==
    FracLess(lowest, [num |-> 3 * second.num, den |-> 10 * second.den])

\* mutant: a list of 2 sections is vectorized too
TooFewForOutlier1(secs) == Len(secs) <= 1

\* len(sections) <= 2
TooFewForOutlier(secs) == Len(secs) <= 2

\* mutant: the two sections of lowest mean similarity are both removed
ensure_content_coherence_two(secs, cos, ok) ==
    IF TooFewForOutlier(secs) THEN [result |-> secs, vectorized |-> FALSE]
    ELSE IF ~ok THEN [result |-> secs, vectorized |-> TRUE]
    ELSE LET sorted_scores == SortedScores(section_scores(cos, Len(secs)))
         IN IF Len(sorted_scores) >= 3
               /\ IsOutlier(sorted_scores[1].mean, sorted_scores[2].mean)
            THEN [result |-> SelectSeq(secs, LAMBDA x :
                                 x \notin {secs[sorted_scores[1].index],
                                           secs[sorted_scores[2].index]}),
                  vectorized |-> TRUE]
            ELSE [result |-> secs, vectorized |-> TRUE]

\* the returned list and whether fit_transform was called
ensure_content_coherence(secs, cos, ok) ==
    IF TooFewForOutlier(secs) THEN [result |-> secs, vectorized |-> FALSE]
    ELSE IF ~ok THEN [result |-> secs, vectorized |-> TRUE]
    ELSE LET sorted_scores == SortedScores(section_scores(cos, Len(secs)))
         IN IF Len(sorted_scores) >= 3
               /\ IsOutlier(sorted_scores[1].mean, sorted_scores[2].mean)
            THEN [result |-> RemoveAt(secs, sorted_scores[1].index),
                  vectorized |-> TRUE]
            ELSE [result |-> secs, vectorized |-> TRUE]

----------------------------------------------------------------------------
(* Specification of ensure_content_coherence on every bounded section list *)

InitCoherence ==
    /\ \E n \in 0..MaxSections :
          /\ c_sections = [i \in 1..n |-> [id |-> i]]
          /\ cosine_of \in [Pairs(n) -> CosVals]
    /\ vectorizer_ok \in BOOLEAN
    /\ coherent_sections = <<>> /\ vectorized = FALSE
    /\ pc_coherence = "call"
    /\ DetectIdle /\ FilterIdle /\ ValidateIdle /\ FileIdle /\ BatchIdle
    /\ OutFileIdle /\ ConfigIdle
    /\ TopicDocIdle /\ ExtractIdle

EnsureContentCoherence ==
    /\ pc_coherence = "call"
    /\ LET r == ensure_content_coherence(c_sections, cosine_of, vectorizer_ok)
       IN /\ coherent_sections' = r.result
          /\ vectorized' = r.vectorized
    /\ pc_coherence' = "done"
    /\ UNCHANGED <<c_sections, cosine_of, vectorizer_ok>>
    /\ UNCHANGED not_coherence_vars

NextCoherence == EnsureContentCoherence

SpecCoherence == InitCoherence /\ [][NextCoherence]_vars

----------------------------------------------------------------------------
(* processors/validation.py: validate_content_against_title *)

\* a response text is a sequence of tokens: words and numbers
Word == [num |-> FALSE, val |-> 0]
Number(v) == [num |-> TRUE, val |-> v]

\* the relevance responses tried: "N/A", "0", "5", "6", "10" and
\* "Score: 12 out of 10"
Responses ==
    {<<Word>>, <<Number(0)>>, <<Number(5)>>, <<Number(6)>>, <<Number(10)>>,
     <<Word, Number(12), Word, Word, Number(10)>>}

\* one chat-completion request: it raises, or it returns a response text
Raises == [raises |-> TRUE, response |-> <<>>]
Returns(r) == [raises |-> FALSE, response |-> r]
RelevanceCalls == {Raises} \cup {Returns(r) : r \in Responses}

\* re.search(r'\d+(?:\.\d+)?', score_text): <<>> when no token is numeric,
\* else <<float(first numeric token)>>
RECURSIVE score_match(_)
score_match(resp) ==
    IF resp = <<>> THEN <<>>
    ELSE IF Head(resp).num THEN <<Head(resp).val>>
    ELSE score_match(Tail(resp))

\* section['title_relevance'] = score, for the sections whose response
\* holds a number
AnnotateRelevance(secs, calls) ==
    [i \in 1..Len(secs) |->
        IF ~calls[i].raises /\ score_match(calls[i].response) # <<>>
        THEN [secs[i] EXCEPT !.title_relevance = score_match(calls[i].response)]
        ELSE secs[i]]

min_title_relevance == 6

\* the loop over the sections: kept on a score >= 6, on an unparsable
\* response and on a failed request
RECURSIVE KeepRelevant(_, _, _)
KeepRelevant(secs, calls, i) ==
    IF i > Len(secs) THEN <<>>
    ELSE (IF calls[i].raises THEN <<secs[i]>>
          ELSE IF score_match(calls[i].response) = <<>> THEN <<secs[i]>>
          ELSE IF score_match(calls[i].response)[1] >= min_title_relevance
               THEN <<secs[i]>>
               ELSE <<>>) \o KeepRelevant(secs, calls, i + 1)

\* sorted(sections, key=lambda x: x.get('title_relevance', 0), reverse=True)
RECURSIVE SortedByRelevance(_)
SortedByRelevance(secs) ==
    IF secs = <<>> THEN <<>>
    ELSE LET i == CHOOSE j \in 1..Len(secs) :
                    /\ \A k \in 1..Len(secs) :
                          Get(secs[k].title_relevance, 0) <= Get(secs[j].title_relevance, 0)
                    /\ \A k \in 1..(j - 1) :
                          Get(secs[k].title_relevance, 0) < Get(secs[j].title_relevance, 0)
         IN <<secs[i]>> \o SortedByRelevance(RemoveAt(secs, i))

\* mutant: the fallback needs more than 3 input sections
TooFewValidatedStrict(kept, secs) == Len(kept) < 3 /\ Len(secs) > 3

TooFewValidated(kept, secs) == Len(kept) < 3 /\ Len(secs) >= 3

validate_content_against_title(secs, calls) ==
    LET annotated == AnnotateRelevance(secs, calls)
        kept == KeepRelevant(annotated, calls, 1)
    IN IF TooFewValidated(kept, annotated)
       THEN FirstN(SortedByRelevance(annotated), 3)
       ELSE kept

----------------------------------------------------------------------------
(* Specification of validate_content_against_title on every bounded list   *)
(* of sections and every outcome of the relevance requests                 *)

InitValidate ==
    /\ \E n \in 0..MaxSections :
          /\ v_sections = [i \in 1..n |-> [id |-> i, title_relevance |-> Absent]]
          /\ relevance_calls \in [1..n -> RelevanceCalls]
    /\ validated_sections = <<>>
    /\ pc_validate = "call"
    /\ DetectIdle /\ FilterIdle /\ CoherenceIdle /\ FileIdle /\ BatchIdle
    /\ OutFileIdle /\ ConfigIdle
    /\ TopicDocIdle /\ ExtractIdle

\* the call annotates the caller's section dicts in place
ValidateContentAgainstTitle ==
    /\ pc_validate = "call"
    /\ v_sections' = AnnotateRelevance(v_sections, relevance_calls)
    /\ validated_sections' = validate_content_against_title(v_sections, relevance_calls)
    /\ pc_validate' = "done"
    /\ UNCHANGED relevance_calls
    /\ UNCHANGED not_validate_vars

NextValidate == ValidateContentAgainstTitle

SpecValidate == InitValidate /\ [][NextValidate]_vars

----------------------------------------------------------------------------
(* summarizer.py: PaperSummarizer.summarize_file with                      *)
(* _hierarchical_summarize, one action per call it makes                   *)

\* what the topic-extraction request can yield: a text that evaluates to a
\* term -> number mapping, a failed request or unparsable text, a text that
\* evaluates to something that is no mapping (a list), and a mapping whose
\* keys or values are not terms and numbers
TopicOutcomes == {"mapping", "raises", "not_mapping", "bad_values"}

\* extract_paper_topic: any exception yields the mapping {title: 1.0};
\* whatever eval returns is returned unchecked
extract_paper_topic(outcome) ==
    IF outcome = "raises" THEN "mapping" ELSE outcome

\* what the topic-modeling request can yield: a mapping whose 'topics' are
\* lists of strings, a failed request, a text that evaluates to a list
\* (no .get), a mapping without 'topics', and a mapping whose 'topics' are
\* not lists of strings
TopicModelOutcomes == {"string_lists", "raises", "not_mapping", "no_topics",
                       "not_string_lists"}

\* perform_topic_modeling: exceptions yield [], the value of 'topics' is
\* returned unchecked
perform_topic_modeling(outcome) ==
    CASE outcome = "string_lists" -> "string_lists"
      [] outcome = "not_string_lists" -> "not_string_lists"
      [] OTHER -> "empty"

\* a generated text or the placeholder of a failed request
Generated(ok) == IF ok THEN "text" ELSE "error placeholder"

\* section dicts of the pipeline, named by their position in the detected
\* list; each stage reads only the annotation it wrote itself
AsFilterInput(ids) ==
    [i \in 1..Len(ids) |-> [id |-> ids[i], content |-> i, topic_similarity |-> Absent]]

AsValidateInput(ids) ==
    [i \in 1..Len(ids) |-> [id |-> ids[i], title_relevance |-> Absent]]

InitFile ==
    /\ s_pc = "extract"
    /\ s_topic_dict = "none" /\ s_sections = <<>> /\ s_topics = "none"
    /\ s_index = 0 /\ s_section_summaries = <<>> /\ s_summary = "none"
    /\ s_key_takeaways = "none" /\ s_engineers_corner = "none"
    /\ s_error = "none"
    /\ s_detected = 0 /\ s_calls = <<>>
    /\ DetectIdle /\ FilterIdle /\ CoherenceIdle /\ ValidateIdle /\ BatchIdle
    /\ OutFileIdle /\ ConfigIdle
    /\ TopicDocIdle /\ ExtractIdle

\* extract_text_and_title: the PDF reader may fail; nothing catches it
ExtractTextAndTitle ==
    /\ s_pc = "extract"
    /\ \E readable \in BOOLEAN :
          IF readable
          THEN s_pc' = "topic" /\ UNCHANGED s_error
          ELSE s_pc' = "raised" /\ s_error' = "extraction"
    /\ UNCHANGED <<s_topic_dict, s_sections, s_topics, s_index,
                   s_section_summaries, s_summary, s_key_takeaways,
                   s_engineers_corner, s_detected>>
    /\ s_calls' = s_calls \o <<"extract_text_and_title">>
    /\ UNCHANGED not_file_vars

ExtractPaperTopic ==
    /\ s_pc = "topic"
    /\ \E outcome \in TopicOutcomes : s_topic_dict' = extract_paper_topic(outcome)
    /\ s_pc' = "detect"
    /\ UNCHANGED <<s_sections, s_topics, s_index, s_section_summaries, s_summary,
                   s_key_takeaways, s_engineers_corner, s_error, s_detected>>
    /\ s_calls' = s_calls \o <<"_hierarchical_summarize", "extract_paper_topic">>
    /\ UNCHANGED not_file_vars

\* detect_sections returns 2 sections or more
DetectStage ==
    /\ s_pc = "detect"
    /\ \E n \in 2..MaxDetected :
          /\ s_sections' = [i \in 1..n |-> i]
          /\ s_detected' = n
    /\ s_pc' = "filter"
    /\ UNCHANGED <<s_topic_dict, s_topics, s_index, s_section_summaries, s_summary,
                   s_key_takeaways, s_engineers_corner, s_error>>
    /\ s_calls' = s_calls \o <<"detect_sections">>
    /\ UNCHANGED not_file_vars

\* filter_irrelevant_sections: compute_topic_similarity reads
\* topic_dict.items() and int(score * 10) outside its try block
FilterStage ==
    /\ s_pc = "filter"
    /\ IF s_topic_dict # "mapping" /\ s_sections # <<>>
       THEN /\ s_pc' = "raised"
            /\ s_error' = "topic response"
            /\ UNCHANGED s_sections
       ELSE /\ \E sim \in [1..Len(s_sections) -> 0..MaxSim], thr \in 0..(MaxSim + 1) :
                  s_sections' = Ids(filter_irrelevant_sections(
                                        AsFilterInput(s_sections), sim, thr))
            /\ s_pc' = "coherence"
            /\ UNCHANGED s_error
    /\ UNCHANGED <<s_topic_dict, s_topics, s_index, s_section_summaries, s_summary,
                   s_key_takeaways, s_engineers_corner, s_detected>>
    /\ s_calls' = s_calls \o <<"filter_irrelevant_sections">>
    /\ UNCHANGED not_file_vars

CoherenceStage ==
    /\ s_pc = "coherence"
    /\ \E cos \in [Pairs(Len(s_sections)) -> CosVals], ok \in BOOLEAN :
          s_sections' = ensure_content_coherence(s_sections, cos, ok).result
    /\ s_pc' = "validate"
    /\ UNCHANGED <<s_topic_dict, s_topics, s_index, s_section_summaries, s_summary,
                   s_key_takeaways, s_engineers_corner, s_error, s_detected>>
    /\ s_calls' = s_calls \o <<"ensure_content_coherence">>
    /\ UNCHANGED not_file_vars

ValidateStage ==
    /\ s_pc = "validate"
    /\ \E calls \in [1..Len(s_sections) -> RelevanceCalls] :
          s_sections' = Ids(validate_content_against_title(
                                AsValidateInput(s_sections), calls))
    /\ s_pc' = "topic_modeling"
    /\ UNCHANGED <<s_topic_dict, s_topics, s_index, s_section_summaries, s_summary,
                   s_key_takeaways, s_engineers_corner, s_error, s_detected>>
    /\ s_calls' = s_calls \o <<"validate_content_against_title">>
    /\ UNCHANGED not_file_vars

PerformTopicModeling ==
    /\ s_pc = "topic_modeling"
    /\ \E outcome \in TopicModelOutcomes : s_topics' = perform_topic_modeling(outcome)
    /\ s_index' = 1
    /\ s_pc' = IF s_sections = <<>> THEN "reduce" ELSE "map"
    /\ UNCHANGED <<s_topic_dict, s_sections, s_section_summaries, s_summary,
                   s_key_takeaways, s_engineers_corner, s_error, s_detected>>
    /\ s_calls' = s_calls \o <<"perform_topic_modeling">>
    /\ UNCHANGED not_file_vars

\* one round of the map loop: the topic guidance joins the topic lists
\* outside any try block, then map_summarize_section catches a failed request
MapSummarizeSection ==
    /\ s_pc = "map"
    /\ s_index <= Len(s_sections)
    /\ IF s_topics = "not_string_lists"
       THEN /\ s_pc' = "raised"
            /\ s_error' = "topic modeling response"
            /\ UNCHANGED <<s_index, s_section_summaries, s_calls>>
       ELSE /\ \E ok \in BOOLEAN :
                  s_section_summaries' =
                      Append(s_section_summaries,
                             [id |-> s_sections[s_index], content |-> Generated(ok)])
            /\ s_index' = s_index + 1
            /\ s_pc' = IF s_index = Len(s_sections) THEN "reduce" ELSE "map"
            /\ s_calls' = s_calls \o <<"map_summarize_section">>
            /\ UNCHANGED s_error
    /\ UNCHANGED <<s_topic_dict, s_sections, s_topics, s_summary, s_key_takeaways,
                   s_engineers_corner, s_detected>>
    /\ UNCHANGED not_file_vars

ReduceSummarize ==
    /\ s_pc = "reduce"
    /\ \E ok \in BOOLEAN : s_summary' = Generated(ok)
    /\ s_pc' = "takeaways"
    /\ UNCHANGED <<s_topic_dict, s_sections, s_topics, s_index, s_section_summaries,
                   s_key_takeaways, s_engineers_corner, s_error, s_detected>>
    /\ s_calls' = s_calls \o <<"reduce_summarize">>
    /\ UNCHANGED not_file_vars

\* mutant: the PDF is written right after the summary, without the key
\* takeaways and the engineer's corner
WriteBeforeTakeaways ==
    /\ s_pc = "takeaways"
    /\ s_pc' = "returned"
    /\ s_calls' = s_calls \o <<"write_summary_pdf">>
    /\ UNCHANGED <<s_topic_dict, s_sections, s_topics, s_index, s_section_summaries,
                   s_summary, s_key_takeaways, s_engineers_corner, s_error,
                   s_detected>>
    /\ UNCHANGED not_file_vars

GenerateKeyTakeaways ==
    /\ s_pc = "takeaways"
    /\ \E ok \in BOOLEAN : s_key_takeaways' = Generated(ok)
    /\ s_pc' = "corner"
    /\ UNCHANGED <<s_topic_dict, s_sections, s_topics, s_index, s_section_summaries,
                   s_summary, s_engineers_corner, s_error, s_detected>>
    /\ s_calls' = s_calls \o <<"generate_key_takeaways">>
    /\ UNCHANGED not_file_vars

GenerateEngineersCorner ==
    /\ s_pc = "corner"
    /\ \E ok \in BOOLEAN : s_engineers_corner' = Generated(ok)
    /\ s_pc' = "write"
    /\ UNCHANGED <<s_topic_dict, s_sections, s_topics, s_index, s_section_summaries,
                   s_summary, s_key_takeaways, s_error, s_detected>>
    /\ s_calls' = s_calls \o <<"generate_engineers_corner">>
    /\ UNCHANGED not_file_vars

\* write_summary_pdf, then return out_file
WriteSummaryPdf ==
    /\ s_pc = "write"
    /\ s_pc' = "returned"
    /\ UNCHANGED <<s_topic_dict, s_sections, s_topics, s_index, s_section_summaries,
                   s_summary, s_key_takeaways, s_engineers_corner, s_error, s_detected>>
    /\ s_calls' = s_calls \o <<"write_summary_pdf">>
    /\ UNCHANGED not_file_vars

NextFile ==
    \/ ExtractTextAndTitle
    \/ ExtractPaperTopic
    \/ DetectStage
    \/ FilterStage
    \/ CoherenceStage
    \/ ValidateStage
    \/ PerformTopicModeling
    \/ MapSummarizeSection
    \/ ReduceSummarize
    \/ GenerateKeyTakeaways
    \/ GenerateEngineersCorner
    \/ WriteSummaryPdf

SpecFile == InitFile /\ [][NextFile]_vars

----------------------------------------------------------------------------
(* summarizer.py: PaperSummarizer.summarize_directory *)

\* a PDF of the directory: its title (which names the output file) and
\* whether summarize_file raises for it
PdfFiles ==
    UNION {[1..n -> [title : 1..MaxTitles, fails : BOOLEAN]] : n \in 0..MaxFiles}

InitBatch ==
    /\ b_pdf_files \in PdfFiles
    /\ b_index = 0 /\ b_output_files = <<>>
    /\ b_pc = "list" /\ b_calls = <<>>
    /\ DetectIdle /\ FilterIdle /\ CoherenceIdle /\ ValidateIdle /\ FileIdle
    /\ OutFileIdle /\ ConfigIdle
    /\ TopicDocIdle /\ ExtractIdle

\* pdf_files = list_pdfs(dir_path); an empty list returns [] at once
ListPdfs ==
    /\ b_pc = "list"
    /\ b_index' = 1
    /\ b_pc' = IF b_pdf_files = <<>> THEN "returned" ELSE "loop"
    /\ UNCHANGED <<b_pdf_files, b_output_files, b_calls>>
    /\ UNCHANGED not_batch_vars

\* one round of the loop: summarize_file is called with no try around it
SummarizeFile ==
    /\ b_pc = "loop"
    /\ b_index <= Len(b_pdf_files)
    /\ b_calls' = Append(b_calls, b_index)
    /\ IF b_pdf_files[b_index].fails
       THEN /\ b_pc' = "raised"
            /\ UNCHANGED <<b_index, b_output_files>>
       ELSE /\ b_output_files' =
                  Append(b_output_files,
                         [pdf |-> b_index, title |-> b_pdf_files[b_index].title])
            /\ b_index' = b_index + 1
            /\ UNCHANGED b_pc
    /\ UNCHANGED b_pdf_files
    /\ UNCHANGED not_batch_vars

ReturnOutputFiles ==
    /\ b_pc = "loop"
    /\ b_index > Len(b_pdf_files)
    /\ b_pc' = "returned"
    /\ UNCHANGED <<b_pdf_files, b_index, b_output_files, b_calls>>
    /\ UNCHANGED not_batch_vars

NextBatch == ListPdfs \/ SummarizeFile \/ ReturnOutputFiles

SpecBatch == InitBatch /\ [][NextBatch]_vars

----------------------------------------------------------------------------
(* utils/text.py: sanitize_filename, and the output path summarize_file    *)
(* builds from the title.  A string is the sequence of its characters.     *)

\* the characters of the class [\\/*?:"<>|]
InvalidChars == {"\\", "/", "*", "?", ":", "\"", "<", ">", "|"}

\* the characters titles are built from: letters, the space, two invalid
\* characters and the underscore
TitleChars == {"S", "e", " ", "/", "?", "_"}

Titles == UNION {[1..n -> TitleChars] : n \in 0..MaxTitleLen}

\* re.sub(r'[\\/*?:"<>|]', "_", name)
sanitize_filename(name) ==
    [i \in 1..Len(name) |-> IF name[i] \in InvalidChars THEN "_" ELSE name[i]]

\* the text "-engineering-summary.pdf", kept as one piece
Suffix == <<"-engineering-summary.pdf">>

\* output_dir / f"{safe_title}-engineering-summary.pdf"
OutFile(output_dir, safe) == [dir |-> output_dir, name |-> safe \o Suffix]

InitOutFile ==
    /\ paper_title \in Titles
    /\ safe_title = <<>> /\ out_file = <<>>
    /\ pc_out_file = "call"
    /\ DetectIdle /\ FilterIdle /\ CoherenceIdle /\ ValidateIdle /\ FileIdle
    /\ BatchIdle /\ ConfigIdle
    /\ TopicDocIdle /\ ExtractIdle

\* the end of summarize_file: safe_title, out_file and the return; without
\* an output_dir argument the directory of the PDF is used
ReturnOutFile ==
    /\ pc_out_file = "call"
    /\ safe_title' = sanitize_filename(paper_title)
    /\ \E output_dir \in {"None", "output_dir"} :
          out_file' = OutFile(IF output_dir = "None" THEN "pdf_path.parent"
                                                    ELSE output_dir,
                              safe_title')
    /\ pc_out_file' = "returned"
    /\ UNCHANGED paper_title
    /\ UNCHANGED not_out_file_vars

NextOutFile == ReturnOutFile

SpecOutFile == InitOutFile /\ [][NextOutFile]_vars

----------------------------------------------------------------------------
(* summarizer.py: DEFAULT_CONFIG and PaperSummarizer.__init__.  A dict is  *)
(* an object of the heap, so that two names can denote the same dict; its  *)
(* contents map each key to <<>> (absent) or <<value>>.                    *)

DefaultKeys == {"CHUNK_SIZE", "SECTION_TITLES", "MIN_SIMILARITY", "LLM_MODEL"}

\* the keys a caller overrides (those of the test configuration)
CallerKeys == {"CHUNK_SIZE", "MIN_SIMILARITY", "LLM_MODEL"}

\* the values a caller supplies, all different from the default values
CallerValues == {"v1", "v2"}

\* the module-level dict as the module body builds it
DEFAULT_CONFIG == [k \in DefaultKeys |-> <<"default">>]

\* the heap address of the module-level dict
DefaultConfigRef == 1

\* the config argument: None, or a dict (possibly empty) over CallerKeys
ConfigArgs ==
    {[none |-> TRUE, items |-> [k \in DefaultKeys |-> Absent]]}
      \cup {[none |-> FALSE, items |-> d] :
                d \in {f \in [DefaultKeys -> {Absent} \cup {<<v>> : v \in CallerValues}] :
                          f["SECTION_TITLES"] = Absent}}

\* `if config:` is false for None and for the empty dict
Truthy(config) == ~config.none /\ \E k \in DefaultKeys : config.items[k] # Absent

\* mutant: no copy, the new name denotes the same dict object
dict_alias(h, ref) == [heap |-> h, ref |-> ref]

\* dict.copy(): a new dict object with the same items
dict_copy(h, ref) == [heap |-> Append(h, h[ref]), ref |-> Len(h) + 1]

\* dict.update(other) on the contents of a dict
dict_update(items, other) ==
    [k \in DefaultKeys |-> IF other[k] # Absent THEN other[k] ELSE items[k]]

\* self.config = DEFAULT_CONFIG.copy(); if config: self.config.update(config)
init_config(h, config) ==
    LET c == dict_copy(h, DefaultConfigRef)
    IN [heap |-> IF Truthy(config)
                 THEN [c.heap EXCEPT ![c.ref] = dict_update(@, config.items)]
                 ELSE c.heap,
        ref |-> c.ref]

InitConfig ==
    /\ heap = <<DEFAULT_CONFIG>>
    /\ summarizers = <<>>
    /\ DetectIdle /\ FilterIdle /\ CoherenceIdle /\ ValidateIdle /\ FileIdle
    /\ BatchIdle /\ OutFileIdle
    /\ TopicDocIdle /\ ExtractIdle

\* PaperSummarizer(config) with OPENAI_API_KEY set: the new summarizer, with
\* the dict its config names and the argument it was built from
NewSummarizer ==
    /\ Len(heap) <= MaxSummarizers
    /\ \E config \in ConfigArgs :
          LET r == init_config(heap, config)
          IN /\ heap' = r.heap
             /\ summarizers' = Append(summarizers, [config |-> r.ref, arg |-> config])
    /\ UNCHANGED not_config_vars

\* PaperSummarizer(config) without OPENAI_API_KEY: the config is built, then
\* ValueError leaves the constructor and no summarizer exists
NewSummarizerRaises ==
    /\ Len(heap) <= MaxSummarizers
    /\ \E config \in ConfigArgs : heap' = init_config(heap, config).heap
    /\ UNCHANGED summarizers
    /\ UNCHANGED not_config_vars

NextConfig == NewSummarizer \/ NewSummarizerRaises

SpecConfig == InitConfig /\ [][NextConfig]_vars

----------------------------------------------------------------------------
(* processors/topic.py: compute_topic_similarity *)

\* most terms in a topic dictionary
MaxTerms == 2

Terms == {"Heat", "flow", "pump"}

\* relevance scores, in hundredths
Weights == {0, 5, 50, 95, 100}

\* the dictionaries tried, as their items in insertion order
TopicDicts ==
    {td \in UNION {[1..n -> [term : Terms, score : Weights]] : n \in 0..MaxTerms} :
        \A i, j \in 1..Len(td) : i # j => td[i].term # td[j].term}

\* the section texts tried: empty or not
SectionTexts == {"", "x"}

\* term.lower()
lower(term) == IF term = "Heat" THEN "heat" ELSE term

\* int(score * 10) for a score given in hundredths
IntTimes10(score) == score \div 10

\* str * n: n copies of the string, one after the other without separator
Repeated(str, n) == [k \in 1..n |-> str]

\* the space-separated pieces of topic_text, one per item of the dictionary
build_topic_text(td) ==
    [k \in 1..Len(td) |->
        LET n == IntTimes10(td[k].score)
        IN Repeated(lower(td[k].term), IF n > 1 THEN n ELSE 1)]

InitTopicDoc ==
    /\ topic_dict \in TopicDicts
    /\ section_text \in SectionTexts
    /\ topic_text = <<>> /\ topic_similarity = 0
    /\ pc_topic_doc = "call"
    /\ DetectIdle /\ FilterIdle /\ CoherenceIdle /\ ValidateIdle /\ FileIdle
    /\ BatchIdle /\ OutFileIdle /\ ConfigIdle
    /\ ExtractIdle

BuildTopicText ==
    /\ pc_topic_doc = "call"
    /\ topic_text' = build_topic_text(topic_dict)
    /\ pc_topic_doc' = "vectorize"
    /\ UNCHANGED <<topic_dict, section_text, topic_similarity>>
    /\ UNCHANGED not_topic_doc_vars

\* an empty text or topic document yields 0.0; otherwise the cosine
\* similarity of the two TF-IDF rows, or 0.0 when the vectorizer raises
ReturnSimilarity ==
    /\ pc_topic_doc = "vectorize"
    /\ IF section_text = "" \/ topic_text = <<>>
       THEN topic_similarity' = 0
       ELSE \E sim \in 0..MaxSim : topic_similarity' = sim
    /\ pc_topic_doc' = "done"
    /\ UNCHANGED <<topic_dict, section_text, topic_text>>
    /\ UNCHANGED not_topic_doc_vars

NextTopicDoc == BuildTopicText \/ ReturnSimilarity

SpecTopicDoc == InitTopicDoc /\ [][NextTopicDoc]_vars


----------------------------------------------------------------------------
(* extractors/pdf.py: extract_text_and_title, and the detect_sections call *)
(* of _hierarchical_summarize on the text it returns                       *)

\* most pages of a PDF file
MaxPages == 2

\* what page.extract_text() is made of: a word, a space, a line break
RawChars == {"abstract", " ", "\n"}

RawLens == 0..3

\* the page texts tried; the empty one also stands for extract_text() = None
RawPages == UNION {[1..n -> RawChars] : n \in RawLens}

\* reader.metadata: None, without a title, or with the title "T"
Metas == {"None", "", "T"}

\* the CHUNK_SIZE values tried for an extracted text
ExtractMaxChars == {3, 15000}

IsSpace(c) == c \in {" ", "\n"}

\* the last index of the run of whitespace that begins at i
RECURSIVE SpaceRunEnd(_, _)
SpaceRunEnd(raw, i) ==
    IF i < Len(raw) /\ IsSpace(raw[i + 1]) THEN SpaceRunEnd(raw, i + 1) ELSE i

\* mutant: the page text is kept as extracted
keep_line_breaks(raw, i) ==
    raw

\* re.sub(r"\s*\n\s*", " ", raw), from index i on: a run of whitespace that
\* holds a line break becomes one space, everything else is kept
RECURSIVE collapse_line_breaks(_, _)
collapse_line_breaks(raw, i) ==
    IF i > Len(raw) THEN <<>>
    ELSE IF IsSpace(raw[i])
    THEN LET j == SpaceRunEnd(raw, i)
         IN (IF \E k \in i..j : raw[k] = "\n" THEN <<" ">> ELSE SubSeq(raw, i, j))
            \o collapse_line_breaks(raw, j + 1)
    ELSE <<raw[i]>> \o collapse_line_breaks(raw, i + 1)

\* " ".join(text_chunks)
RECURSIVE JoinChunks(_, _)
JoinChunks(chunks, i) ==
    IF i > Len(chunks) THEN <<>>
    ELSE (IF i > 1 THEN <<" ">> ELSE <<>>) \o chunks[i] \o JoinChunks(chunks, i + 1)

extract_text(pages) ==
    JoinChunks([k \in 1..Len(pages) |-> collapse_line_breaks(pages[k], 1)], 1)

CharLen(c) == IF c = "abstract" THEN HeaderLen("abstract") ELSE 1

\* a paragraph of the text as detect_sections sees it: a header line when
\* it is a section word alone, body text otherwise
BlockOf(chars) ==
    IF chars = <<"abstract">> THEN Hdr("abstract", FALSE)
    ELSE Body(SumSeq([k \in 1..Len(chars) |-> CharLen(chars[k])]))

\* the text cut at its blank lines
RECURSIVE ToBlocks(_, _, _, _)
ToBlocks(chars, i, cur, acc) ==
    IF i > Len(chars) THEN Append(acc, BlockOf(cur))
    ELSE IF chars[i] = "\n" /\ i < Len(chars) /\ chars[i + 1] = "\n"
    THEN ToBlocks(chars, i + 2, <<>>, Append(acc, BlockOf(cur)))
    ELSE ToBlocks(chars, i + 1, Append(cur, chars[i]), acc)

TextOf(chars) == ToBlocks(chars, 1, <<>>, <<>>)

InitExtract ==
    /\ e_pages \in UNION {[1..n -> RawPages] : n \in 0..MaxPages}
    /\ e_meta \in Metas
    /\ e_stem = "paper"
    /\ e_max_chars \in ExtractMaxChars
    /\ e_text = <<>> /\ e_title = "" /\ e_sections = <<>>
    /\ e_pc = "call"
    /\ DetectIdle /\ FilterIdle /\ CoherenceIdle /\ ValidateIdle /\ FileIdle
    /\ BatchIdle /\ OutFileIdle /\ ConfigIdle
    /\ TopicDocIdle

\* meta.title on a file without metadata raises AttributeError
ExtractRaises ==
    /\ e_pc = "call"
    /\ e_meta = "None"
    /\ e_pc' = "raised"
    /\ UNCHANGED <<e_pages, e_meta, e_stem, e_max_chars, e_text, e_title, e_sections>>
    /\ UNCHANGED not_extract_vars

ReturnTextAndTitle ==
    /\ e_pc = "call"
    /\ e_meta # "None"
    /\ e_title' = IF e_meta = "" THEN e_stem ELSE e_meta
    /\ e_text' = extract_text(e_pages)
    /\ e_pc' = "extracted"
    /\ UNCHANGED <<e_pages, e_meta, e_stem, e_max_chars, e_sections>>
    /\ UNCHANGED not_extract_vars

\* sections = detect_sections(text, SECTION_TITLES, CHUNK_SIZE)
DetectExtracted ==
    /\ e_pc = "extracted"
    /\ \E pats \in PatternLists :
          e_sections' = ProcessSections(TierSections(TextOf(e_text), pats),
                                        e_max_chars, 1)
    /\ e_pc' = "detected"
    /\ UNCHANGED <<e_pages, e_meta, e_stem, e_max_chars, e_text, e_title>>
    /\ UNCHANGED not_extract_vars

NextExtract == ExtractRaises \/ ReturnTextAndTitle \/ DetectExtracted

SpecExtract == InitExtract /\ [][NextExtract]_vars


----------------------------------------------------------------------------
(* Specification of detect_sections on every bounded text *)

InitDetect ==
    /\ text \in Texts
    /\ section_patterns \in PatternLists
    /\ max_chars \in MaxCharsSet
    /\ filtered_matches = <<>> /\ sections = <<>> /\ processed_sections = <<>>
    /\ pc_detect = "call"
    /\ FilterIdle /\ CoherenceIdle /\ ValidateIdle /\ FileIdle /\ BatchIdle
    /\ OutFileIdle /\ ConfigIdle
    /\ TopicDocIdle /\ ExtractIdle

DetectSections ==
    /\ pc_detect = "call"
    /\ filtered_matches' = FilteredMatches(text, section_patterns)
    /\ sections' = TierSections(text, section_patterns)
    /\ processed_sections' = ProcessSections(sections', max_chars, 1)
    /\ pc_detect' = "done"
    /\ UNCHANGED <<text, section_patterns, max_chars>>
    /\ UNCHANGED not_detect_vars

NextDetect == DetectSections

SpecDetect == InitDetect /\ [][NextDetect]_vars

----------------------------------------------------------------------------
(* Claims about detect_sections, checked under SpecDetect *)

\* C1: for every non-empty text, pattern list and max_chars, detect_sections
\* returns at least 3 sections, also when the primary tier accepts exactly
\* 2 headers that both have more than 200 characters of content
C1_FallbackTotality ==
    pc_detect = "done" => Len(processed_sections) >= 3

\* C2: every section detect_sections returns has len(content) <= max_chars
C2_ChunkSizeBound ==
    pc_detect = "done" =>
        \A i \in 1..Len(processed_sections) :
            ContentLen(processed_sections[i].content) <= max_chars

\* C12: every section detect_sections creates, in the primary tier and in
\* each of the three fallback shapes, has a content of at least 200
\* characters (so a non-empty one) when it is created, before chunking
C12_ContentFloor ==
    pc_detect = "done" =>
        \A i \in 1..Len(sections) :
            ContentLen(sections[i].content) >= min_content_len

\* the configured headers of the text, and the body that follows header h:
\* the text from the end of its line to the blank line before the next
\* header, or to the end of the text
Headers == {i \in 1..Len(text) : text[i].kind \in section_patterns}

LaterHeaders(h) == {k \in Headers : k > h}

NextHeader(h) == CHOOSE k \in LaterHeaders(h) : \A j \in LaterHeaders(h) : k <= j

BodyEnd(h) ==
    IF LaterHeaders(h) = {} THEN TextLen(text) ELSE BlockEnd(text, NextHeader(h) - 1)

HasBody(h) == h < Len(text) /\ (h + 1) \notin Headers

BodyLen(h) == BodyEnd(h) - BlockStart(text, h + 1)

RECURSIVE InOrder(_)
InOrder(S) ==
    IF S = {} THEN <<>>
    ELSE LET m == CHOOSE x \in S : \A y \in S : x <= y
         IN <<m>> \o InOrder(S \ {m})

\* one section per header, in source order: the header without its ordinal,
\* capitalized, and the body that follows it
OneSectionPerHeader ==
    LET hs == InOrder(Headers)
    IN [k \in 1..Len(hs) |->
          [title |-> SectionTitle(text[hs[k]]), part |-> 0,
           content |-> Slice(text, BlockStart(text, hs[k] + 1), BodyEnd(hs[k]))]]

RECURSIVE AcceptedFrom(_, _, _, _)
AcceptedFrom(ms, k, acc, last_end) ==
    IF k > Len(ms) THEN acc
    ELSE IF acc = <<>> \/ ms[k].start - last_end >= min_section_size
         THEN AcceptedFrom(ms, k + 1, Append(acc, ms[k]), ms[k].end)
         ELSE AcceptedFrom(ms, k + 1, acc, last_end)

\* C21: scanning the header matches in order, a match is discarded exactly
\* when it starts less than 1000 characters after the previous accepted
\* match; one that starts exactly 1000 characters after it is accepted, and
\* the first match is always accepted
C21_ProximityFilter ==
    pc_detect = "done" =>
        filtered_matches =
            AcceptedFrom(section_matches(text, section_patterns), 1, <<>>, 0)

\* the number of sections the primary tier yields
PrimaryYield ==
    IF Len(filtered_matches) >= 2
    THEN Len(PrimarySections(text, filtered_matches, 1))
    ELSE 0

TitlesOf(secs) == [k \in 1..Len(secs) |-> secs[k].title]

Region(c) == <<c.lo, c.hi>>

\* C22: when the primary tier yields fewer than 2 sections, detect_sections
\* emits before chunking exactly Abstract, Introduction, Main Body,
\* Conclusion when an Abstract and an Introduction block are found,
\* exactly Introduction, Main Body, Conclusion when only an Introduction is
\* found, and exactly Introduction, Methods and Results, Discussion and
\* Conclusion holding the first 25%, the 25-75% and the last 25% of the
\* text when neither is found
C22_FallbackShapes ==
    (pc_detect = "done" /\ PrimaryYield < 2) =>
        LET a == AbstractBlocks(text) # {}
            i == IntroBlocks(text) # {}
            n == TextLen(text)
        IN /\ (a /\ i) =>
                TitlesOf(sections) =
                    <<"Abstract", "Introduction", "Main Body", "Conclusion">>
           /\ (~a /\ i) =>
                TitlesOf(sections) = <<"Introduction", "Main Body", "Conclusion">>
           /\ (~a /\ ~i) =>
                /\ TitlesOf(sections) =
                       <<"Introduction", "Methods and Results",
                         "Discussion and Conclusion">>
                /\ Region(sections[1].content) = <<0, n \div 4>>
                /\ Region(sections[2].content) = <<n \div 4, (3 * n) \div 4>>
                /\ Region(sections[3].content) = <<(3 * n) \div 4, n>>

\* C22 happens: two headers were accepted, the primary tier still yields
\* fewer than 2 sections, and the four-section shape is emitted
C22_Witness ==
    /\ pc_detect = "done"
    /\ Len(filtered_matches) >= 2
    /\ PrimaryYield < 2
    /\ Len(sections) = 4

\* C22 happens in the proportional shape
C22_WitnessProportional ==
    /\ pc_detect = "done"
    /\ PrimaryYield < 2
    /\ AbstractBlocks(text) = {} /\ IntroBlocks(text) = {}
    /\ Len(sections) = 3


\* the returned sections that begin the output of one detected section: an
\* unsplit section or a first part
PartStarts == {i \in 1..Len(processed_sections) : processed_sections[i].part <= 1}

KthStart(k) == CHOOSE i \in PartStarts : Cardinality({j \in PartStarts : j <= i}) = k

GroupEnd(k) ==
    IF k < Cardinality(PartStarts) THEN KthStart(k + 1) - 1
    ELSE Len(processed_sections)

\* what is returned for the k-th detected section
GroupOf(k) ==
    LET first == KthStart(k)
    IN [n \in 1..(GroupEnd(k) - first + 1) |-> processed_sections[first + n - 1]]

IsSplit(k) == GroupOf(k)[1].part = 1

\* the paragraphs a chunk holds: every piece before its final separator
WholeParas(c) == SubSeq(c.paras, 1, Len(c.paras) - 1)

RECURSIVE ParasOfChunks(_, _)
ParasOfChunks(g, n) ==
    IF n > Len(g) THEN <<>>
    ELSE WholeParas(g[n].content) \o ParasOfChunks(g, n + 1)

\* C24: chunk_text never splits inside a paragraph and never loses,
\* duplicates or reorders one: every chunk ends at a paragraph end, and the
\* paragraphs of the chunks, taken in chunk order, are the paragraphs of the
\* chunked content in their original order
C24_ParagraphAligned ==
    pc_detect = "done" =>
        /\ Cardinality(PartStarts) = Len(sections)
        /\ \A k \in 1..Len(sections) :
              LET g == GroupOf(k)
              IN g[1].part = 1 =>
                    /\ \A n \in 1..Len(g) :
                          LET c == g[n].content
                          IN c.paras[Len(c.paras)] = 0
                    /\ ParasOfChunks(g, 1) = sections[k].content.paras

\* C24 happens: a content of 3 or more paragraphs was cut into 2 or more
\* chunks, one of them holding 2 or more paragraphs
C24_Witness ==
    /\ pc_detect = "done"
    /\ Cardinality(PartStarts) = Len(sections)
    /\ \E k \in 1..Len(sections) :
          /\ IsSplit(k)
          /\ Len(sections[k].content.paras) >= 3
          /\ Len(GroupOf(k)) >= 2
          /\ \E n \in 1..Len(GroupOf(k)) : Len(WholeParas(GroupOf(k)[n].content)) >= 2


\* C25: a section whose content does not exceed max_chars is returned
\* unchanged; a section whose content exceeds max_chars is replaced, in its
\* position, by its chunks titled "<title> (Part n)", n = 1, 2, ..., k in
\* chunk order, so the detected sections keep their relative order
C25_PostProcessing ==
    pc_detect = "done" =>
        /\ Cardinality(PartStarts) = Len(sections)
        /\ \A k \in 1..Len(sections) :
              LET g == GroupOf(k)
              IN IF ContentLen(sections[k].content) <= max_chars
                 THEN g = <<sections[k]>>
                 ELSE LET chunks == chunk_text(sections[k].content, max_chars)
                      IN /\ Len(g) = Len(chunks)
                         /\ \A n \in 1..Len(chunks) :
                               /\ g[n].title = sections[k].title
                               /\ g[n].part = n
                               /\ g[n].content = chunks[n]

\* C25 happens: a section cut into 2 or more parts is returned between two
\* sections that were passed through
C25_Witness ==
    /\ pc_detect = "done"
    /\ Cardinality(PartStarts) = Len(sections)
    /\ \E k \in 2..(Len(sections) - 1) :
          /\ ContentLen(sections[k].content) > max_chars
          /\ Len(GroupOf(k)) >= 2
          /\ GroupOf(k - 1) = <<sections[k - 1]>>
          /\ GroupOf(k + 1) = <<sections[k + 1]>>


\* a content that holds at least one character
NonEmpty(c) == c.lo < c.hi

\* C29: in every fallback shape the contents of the emitted sections are
\* pairwise non-overlapping regions of the text in source order (the
\* Introduction body overlaps neither Main Body nor Conclusion), and in the
\* proportional shape the three contents concatenated are the whole text
C29_DisjointRegions ==
    (pc_detect = "done" /\ PrimaryYield < 2) =>
        /\ \A i, j \in 1..Len(sections) :
              (i < j /\ NonEmpty(sections[i].content) /\ NonEmpty(sections[j].content))
                  => sections[i].content.hi <= sections[j].content.lo
        /\ (AbstractBlocks(text) = {} /\ IntroBlocks(text) = {}) =>
              /\ sections[1].content.lo = 0
              /\ sections[1].content.hi = sections[2].content.lo
              /\ sections[2].content.hi = sections[3].content.lo
              /\ sections[3].content.hi = TextLen(text)

----------------------------------------------------------------------------
(* Claims about compute_topic_similarity, checked under SpecTopicDoc *)

\* round(score * 10) for a score given in hundredths
RoundTimes10(score) == (score + 5) \div 10

\* the space-separated tokens of the topic document that are the term
TokensOf(term) == {k \in 1..Len(topic_text) : topic_text[k] = <<lower(term)>>}

\* C26: the topic document holds every topic term round(weight x 10) times,
\* at least once, as that many space-separated tokens
C26_TopicDocument ==
    pc_topic_doc \in {"vectorize", "done"} =>
        \A k \in 1..Len(topic_dict) :
            LET n == RoundTimes10(topic_dict[k].score)
            IN Cardinality(TokensOf(topic_dict[k].term)) = IF n > 1 THEN n ELSE 1


----------------------------------------------------------------------------
(* Claims about the text of extract_text_and_title, checked under          *)
(* SpecExtract                                                             *)

ProportionalTitles ==
    <<"Introduction", "Methods and Results", "Discussion and Conclusion">>

\* the returned sections that begin the output of one detected section
ExtractedStarts == {i \in 1..Len(e_sections) : e_sections[i].part <= 1}

\* C27: the text extract_text_and_title returns holds no line break, and on
\* it detect_sections matches no header, no Abstract block and no
\* Introduction block and returns the three proportional sections
\* Introduction, Methods and Results, Discussion and Conclusion, each
\* possibly split into parts
C27_OnlyProportional ==
    e_pc \in {"extracted", "detected"} =>
        /\ \A k \in 1..Len(e_text) : e_text[k] # "\n"
        /\ LET t == TextOf(e_text)
           IN /\ \A pats \in PatternLists : section_matches(t, pats) = <<>>
              /\ ~abstract_match(t).found
              /\ ~intro_match(t).found
        /\ e_pc = "detected" =>
              /\ Cardinality(ExtractedStarts) = 3
              /\ \A i \in 1..Len(e_sections) :
                    LET n == Cardinality({j \in ExtractedStarts : j <= i})
                    IN n >= 1 /\ e_sections[i].title = ProportionalTitles[n]

\* C27 happens: a page whose text is an Abstract header followed by a blank
\* line was extracted, and a proportional section was split into parts
C27_Witness ==
    /\ e_pc = "detected"
    /\ \E p \in 1..Len(e_pages) :
          /\ Len(e_pages[p]) = 3
          /\ e_pages[p][1] = "abstract"
          /\ e_pages[p][2] = "\n" /\ e_pages[p][3] = "\n"
    /\ Len(e_sections) > 3


----------------------------------------------------------------------------
(* Claims about filter_irrelevant_sections, checked under SpecFilter *)

Increasing(s) == \A i, j \in 1..Len(s) : i < j => s[i] < s[j]
Distinct(s) == \A i, j \in 1..Len(s) : i # j => s[i] # s[j]

FilterRan == pc_filter \in {"filtered", "refiltered"}

\* the similarity of the i-th input section
InputSim(i) == compute_topic_similarity(similarity_of, f_sections[i].content)

PassingInputs == {i \in 1..Len(f_sections) : InputSim(i) >= similarity_threshold}

FloorCase == Len(f_sections) >= 3 /\ Cardinality(PassingInputs) < 3

\* input section r ranks before input section q: higher similarity, or the
\* same similarity and earlier in the input
RanksBefore(r, q) ==
    \/ InputSim(r) > InputSim(q)
    \/ InputSim(r) = InputSim(q) /\ r < q

\* C3: with at least 3 input sections of which fewer than 3 reach the
\* threshold, exactly 3 sections are returned: the 3 of highest similarity,
\* equal similarities decided by input order, whatever passed the threshold
C3_FilterFloor ==
    (FilterRan /\ FloorCase) =>
        /\ Len(relevant_sections) = 3
        /\ Distinct(Ids(relevant_sections))
        /\ \A r \in Range(Ids(relevant_sections)) :
              \A q \in (1..Len(f_sections)) \ Range(Ids(relevant_sections)) :
                  RanksBefore(r, q)

\* a run with 4 sections where one passed the threshold and a tie between a
\* kept and a dropped section was decided
C3_Witness ==
    /\ FilterRan /\ FloorCase
    /\ Len(f_sections) = 4
    /\ PassingInputs # {}
    /\ \E r \in Range(Ids(relevant_sections)) :
          \E q \in (1..Len(f_sections)) \ Range(Ids(relevant_sections)) :
              InputSim(r) = InputSim(q)

\* C7: filtering the filter's own output again, same topic map and
\* threshold, returns the identical set of sections
C7_FilterIdempotent ==
    pc_filter = "refiltered" =>
        /\ Range(refiltered_sections) = Range(relevant_sections)
        /\ Len(refiltered_sections) = Len(relevant_sections)

\* the first run dropped a section through the top-3 fallback
C7_Witness ==
    /\ pc_filter = "refiltered"
    /\ FloorCase
    /\ Len(f_sections) = 4
    /\ Len(refiltered_sections) = 3

\* C8 as stated: the output is a subsequence of the input (same relative
\* order, fallback included) and every returned section is annotated
C8_Subsequence ==
    FilterRan =>
        /\ Increasing(Ids(relevant_sections))
        /\ Range(Ids(relevant_sections)) \subseteq 1..Len(f_sections)
        /\ \A i \in 1..Len(relevant_sections) :
              relevant_sections[i].topic_similarity # Absent

\* C8 amended: the output consists of distinct annotated sections of the
\* input; in input order when the threshold result is returned, and by
\* descending similarity (equal similarities in input order) when the top-3
\* fallback is used
C8_SubsetOrdered ==
    FilterRan =>
        /\ Distinct(Ids(relevant_sections))
        /\ \A i \in 1..Len(relevant_sections) :
              /\ relevant_sections[i].id \in 1..Len(f_sections)
              /\ relevant_sections[i] = f_sections[relevant_sections[i].id]
              /\ relevant_sections[i].topic_similarity # Absent
        /\ ~FloorCase => Increasing(Ids(relevant_sections))
        /\ FloorCase =>
              \A i, j \in 1..Len(relevant_sections) :
                  i < j => RanksBefore(relevant_sections[i].id, relevant_sections[j].id)

\* the fallback returned sections out of input order
C8_Witness ==
    /\ FilterRan /\ FloorCase
    /\ ~Increasing(Ids(relevant_sections))

----------------------------------------------------------------------------
(* Claims about ensure_content_coherence, checked under SpecCoherence *)

NumSections == Len(c_sections)

Mean(i) == MeanSimilarity(cosine_of, NumSections, i)

\* the mean similarity of every section
Means == [i \in 1..NumSections |-> Mean(i)]

\* the sections of smallest mean similarity
LowestSections ==
    LET m == Means
    IN {i \in 1..NumSections : \A k \in 1..NumSections : ~FracLess(m[k], m[i])}

\* the second-smallest mean: the smallest mean again when two sections share
\* it, otherwise the smallest mean among the other sections
SecondLowestSections ==
    LET m == Means
        low == LowestSections
        rest == (1..NumSections) \ low
    IN IF Cardinality(low) >= 2 THEN low
       ELSE {i \in rest : \A k \in rest : ~FracLess(m[k], m[i])}

\* smallest mean < 0.3 * second-smallest mean
OutlierCondition ==
    LET m == Means
        low == LowestSections
        second == SecondLowestSections
    IN \E a \in low : \E b \in second :
           10 * m[a].num * m[b].den < 3 * m[b].num * m[a].den

\* C5: with 3 or more sections and a successful vectorization, the section
\* of smallest mean similarity is removed if and only if that mean is
\* strictly below 0.3 times the second-smallest mean; every other section is
\* returned, in the original order
C5_OutlierRule ==
    (pc_coherence = "done" /\ NumSections >= 3 /\ vectorizer_ok) =>
        IF OutlierCondition
        THEN \E a \in LowestSections : coherent_sections = RemoveAt(c_sections, a)
        ELSE coherent_sections = c_sections

\* an outlier with a non-zero mean, in the middle of 4 sections, was removed
C5_Witness ==
    /\ pc_coherence = "done" /\ NumSections = 4 /\ vectorizer_ok
    /\ OutlierCondition
    /\ \E a \in LowestSections :
          /\ a \in 2..3
          /\ Mean(a).num > 0
          /\ coherent_sections = RemoveAt(c_sections, a)

\* C6: 0, 1 or 2 sections are returned unchanged, without vectorization
C6_CoherenceNoOp ==
    (pc_coherence = "done" /\ NumSections <= 2) =>
        /\ coherent_sections = c_sections
        /\ ~vectorized

\* a call with 2 sections returned
C6_Witness ==
    /\ pc_coherence = "done" /\ NumSections = 2
    /\ coherent_sections = c_sections

\* the list secs without its i-th element
Without(secs, i) ==
    [k \in 1..(Len(secs) - 1) |-> IF k < i THEN secs[k] ELSE secs[k + 1]]

\* C23: whatever the input and the outcome of the vectorization, the list
\* ensure_content_coherence returns is the input list unchanged or the input
\* list with exactly one section removed, the others in their original order
C23_AtMostOneRemoved ==
    pc_coherence = "done" =>
        \/ coherent_sections = c_sections
        \/ \E i \in 1..NumSections : coherent_sections = Without(c_sections, i)

\* C23 happens: one of 4 sections was removed, and it was not the last one
C23_Witness ==
    /\ pc_coherence = "done" /\ NumSections = 4
    /\ Len(coherent_sections) = 3
    /\ coherent_sections[3] = c_sections[4]

\* C23 happens when the vectorization fails
C23_WitnessFailure ==
    /\ pc_coherence = "done" /\ NumSections >= 3 /\ ~vectorizer_ok
    /\ coherent_sections = c_sections


\* the second-lowest mean similarity is 0
SecondLowestIsZero ==
    LET m == Means
    IN \A b \in SecondLowestSections : m[b].num = 0

\* C30: with 3 or more sections whose second-lowest mean similarity is 0,
\* ensure_content_coherence removes no section: means are never negative
\* and the test lowest < 0.3 * second_lowest is strict
C30_ZeroBoundary ==
    (pc_coherence = "done" /\ NumSections >= 3 /\ SecondLowestIsZero) =>
        /\ LET m == Means IN \A i \in 1..NumSections : m[i].num >= 0
        /\ coherent_sections = c_sections

\* C30 happens: 3 or more sections were vectorized, the second-lowest mean
\* is 0 while another section has a positive mean, and all are returned
C30_Witness ==
    /\ pc_coherence = "done" /\ NumSections >= 3 /\ vectorizer_ok /\ vectorized
    /\ SecondLowestIsZero
    /\ \E i \in 1..NumSections : Mean(i).num > 0
    /\ coherent_sections = c_sections


----------------------------------------------------------------------------
(* Claims about validate_content_against_title, checked under SpecValidate *)

\* the request for section i failed or its response holds no number
FailedOpen(i) ==
    \/ relevance_calls[i].raises
    \/ score_match(relevance_calls[i].response) = <<>>

\* C4: every section whose relevance response holds no numeric token, or
\* whose request raises, is in the returned list, whatever the number of
\* sections and the outcomes of the others (top-3 fallback included)
C4_FailOpen ==
    pc_validate = "done" =>
        \A i \in 1..Len(v_sections) :
            FailedOpen(i) => i \in Range(Ids(validated_sections))

\* C13: whenever a title_relevance is attached to a section, its value lies
\* in [0, 10], whatever the response text (a first numeric token above 10
\* included)
C13_RelevanceRange ==
    pc_validate = "done" =>
        \A i \in 1..Len(v_sections) :
            v_sections[i].title_relevance # Absent =>
                /\ v_sections[i].title_relevance[1] >= 0
                /\ v_sections[i].title_relevance[1] <= 10

\* the score parsed from the response for section i, 0 when there is none
\* (the default the top-3 fallback sorts by)
ScoreOrZero(i) ==
    IF FailedOpen(i) THEN 0 ELSE score_match(relevance_calls[i].response)[1]

\* the sections the loop keeps: fail-open ones and those scoring 6 or more
KeptByLoop ==
    {i \in 1..Len(v_sections) : FailedOpen(i) \/ ScoreOrZero(i) >= min_title_relevance}

ValidationFloorCase == Len(v_sections) >= 3 /\ Cardinality(KeptByLoop) < 3

----------------------------------------------------------------------------
(* Claims about summarize_file, checked under SpecFile *)

\* C9: no failure or malformed response of a generative call (topic
\* extraction, title validation, topic modeling, map, reduce, takeaways,
\* engineer's corner) aborts the document: summarize_file raises only for
\* an extraction error
C9_NoGenerativeAbort ==
    s_pc = "raised" => s_error = "extraction"

\* the list a stage is about to receive: s_sections when control stands
\* before the coherence check, before title validation, or in the map phase
AtCoherence == s_pc = "coherence"
AtValidation == s_pc = "validate"
AtMapPhase == s_pc \in {"topic_modeling", "map", "reduce"}

\* C11: whenever detect_sections yields at least 3 sections, the coherence
\* check, title validation and the map phase each receive at least 3
\* sections
C11_StageFloor ==
    (s_detected >= 3 /\ (AtCoherence \/ AtValidation \/ AtMapPhase)) =>
        Len(s_sections) >= 3

\* the positions of the calls of one function in the run
CallsOf(f) == {k \in 1..Len(s_calls) : s_calls[k] = f}

\* the map phase was entered and the run has left it: reduce_summarize
\* returned, or the loop raised
MapPhaseOver ==
    \/ s_pc \in {"takeaways", "corner", "write", "returned"}
    \/ s_pc = "raised" /\ s_error = "topic modeling response"

\* C16: whatever the outcomes of the per-section summary requests, the list
\* passed to reduce_summarize has exactly one entry per validated section,
\* in the validated order (a failed request leaving its placeholder), and
\* reduce_summarize is invoked exactly once, after all the map calls
C16_MapResilience ==
    MapPhaseOver =>
        /\ Ids(s_section_summaries) = s_sections
        /\ Cardinality(CallsOf("map_summarize_section")) = Len(s_sections)
        /\ Cardinality(CallsOf("reduce_summarize")) = 1
        /\ \A m \in CallsOf("map_summarize_section") :
              \A r \in CallsOf("reduce_summarize") : m < r

\* the five steps of summarize_file, in the order of its body
FileSteps ==
    <<"extract_text_and_title", "_hierarchical_summarize", "generate_key_takeaways",
      "generate_engineers_corner", "write_summary_pdf">>

IsFileStep(c) == \E k \in 1..Len(FileSteps) : FileSteps[k] = c

\* the steps of summarize_file taken so far, in the order they were taken
StepsTaken == SelectSeq(s_calls, IsFileStep)

RunEnded == s_pc \in {"returned", "raised"}

TextsProduced ==
    s_summary # "none" /\ s_key_takeaways # "none" /\ s_engineers_corner # "none"

WriterInvoked == CallsOf("write_summary_pdf") # {}

\* C20 as stated: in one summarize_file run the five steps each happen
\* exactly once, in that order, the writer only after the three texts
C20_ExactlyOnce ==
    /\ RunEnded => StepsTaken = FileSteps
    /\ WriterInvoked => TextsProduced

\* C20 amended: in every run the steps taken are an initial part of the
\* five in their order (each at most once); a run that returns has taken
\* all five; the writer is invoked only after the three texts
C20_StepsInOrder ==
    /\ Len(StepsTaken) <= Len(FileSteps)
    /\ StepsTaken = SubSeq(FileSteps, 1, Len(StepsTaken))
    /\ s_pc = "returned" => StepsTaken = FileSteps
    /\ WriterInvoked => TextsProduced

\* a run returned after two section summaries, one of its texts being the
\* placeholder of a failed request
C20_Witness ==
    /\ s_pc = "returned"
    /\ StepsTaken = FileSteps
    /\ Len(s_section_summaries) = 2
    /\ s_key_takeaways = "error placeholder"

\* C28: whenever detect_sections yields at least 3 sections, the map phase
\* and reduce_summarize receive at least one section
C28_MapPhaseNonEmpty ==
    (s_detected >= 3 /\ AtMapPhase) => Len(s_sections) >= 1


----------------------------------------------------------------------------
(* Claims about summarize_directory, checked under SpecBatch *)

BatchEnded == b_pc \in {"returned", "raised"}

\* C10: when summarize_file fails for one PDF, the other PDFs of the
\* directory are still processed and their output paths returned
C10_BatchIsolation ==
    BatchEnded =>
        \A i \in 1..Len(b_pdf_files) :
            ~b_pdf_files[i].fails =>
                /\ b_pc = "returned"
                /\ \E k \in 1..Len(b_output_files) : b_output_files[k].pdf = i

\* C18: summarize_directory calls summarize_file exactly once per PDF of
\* list_pdfs, in list order, and returns the output paths in that order,
\* none missing, none twice; for an empty list it returns [] without a call
C18_OncePerPdf ==
    BatchEnded =>
        LET produced == InOrder({i \in 1..Len(b_pdf_files) : ~b_pdf_files[i].fails})
        IN /\ b_calls = [i \in 1..Len(b_pdf_files) |-> i]
           /\ b_pc = "returned"
           /\ Len(b_output_files) = Len(produced)
           /\ \A k \in 1..Len(produced) :
                 /\ b_output_files[k].pdf = produced[k]
                 /\ b_output_files[k].title = b_pdf_files[produced[k]].title

----------------------------------------------------------------------------
(* Claims about the output path, checked under SpecOutFile *)

\* the title with its spaces and its filesystem-invalid characters
\* replaced by underscores
Underscored(name) ==
    [i \in 1..Len(name) |->
        IF name[i] = " " \/ name[i] \in InvalidChars THEN "_" ELSE name[i]]

\* C17: summarize_file returns output_dir / '<safe title>-engineering-
\* summary.pdf' where spaces as well as filesystem-invalid characters of the
\* title are underscores ('Sample Title' gives 'Sample_Title')
C17_SafeTitle ==
    pc_out_file = "returned" =>
        /\ out_file.dir \in {"output_dir", "pdf_path.parent"}
        /\ out_file.name = Underscored(paper_title) \o Suffix

----------------------------------------------------------------------------
(* Claims about PaperSummarizer.__init__, checked under SpecConfig *)

\* the configuration summarizer i holds
ConfigOf(i) == heap[summarizers[i].config]

\* the value summarizer i was built to hold for key k
Expected(i, k) ==
    IF ~summarizers[i].arg.none /\ summarizers[i].arg.items[k] # Absent
    THEN summarizers[i].arg.items[k]
    ELSE DEFAULT_CONFIG[k]

\* C19: every summarizer holds the caller's value for each key the caller
\* supplied and the default for every other key, and however many
\* summarizers are constructed with whatever overrides, DEFAULT_CONFIG and
\* the configuration of every other summarizer stay as they were
C19_ConfigOverride ==
    /\ heap # <<>> => heap[DefaultConfigRef] = DEFAULT_CONFIG
    /\ \A i \in 1..Len(summarizers) :
          \A k \in DefaultKeys : ConfigOf(i)[k] = Expected(i, k)

\* two summarizers built with different values for the same key
C19_Witness ==
    /\ Len(summarizers) = 2
    /\ \E k \in CallerKeys :
          /\ ConfigOf(1)[k] = <<"v1">>
          /\ ConfigOf(2)[k] = <<"v2">>
    /\ \E k \in CallerKeys : ConfigOf(1)[k] = <<"default">>

====
